---- MODULE Spec2Model ----
\* A model of rundeck_calendar: the RundeckJobSchedule record and its
\* constructor (the schedule normalizer), and RundeckCalendar's walk over the
\* projects and jobs of a Rundeck server that builds the list of schedule
\* records.
\*
\* Text that the code splits or assigns to a recurrence field is a sequence of
\* one-character strings; Python's None is the one-element sequence NoneVal,
\* which no text over the alphabet equals.  Identifiers that are only copied
\* (job ids, names, project names, exception names) are TLA+ strings.
EXTENDS Integers, Sequences, FiniteSets, TLC

VARIABLES
    \* ---- one call of RundeckJobSchedule(...) -------------------------------
    cron_schedule,          \* the cron_schedule argument (text or NoneVal)
    kwargs,                 \* second..year keyword arguments (text or NoneVal)
    made,                   \* outcome of the call: [exc, obj], obj of length 0 or 1
    npc,                    \* "args" before the call, "called" after it
    \* ---- one RundeckCalendar object and its calls --------------------------
    pc,                     \* position of the caller / of the loops
    project_names,          \* self.project_names
    pidx,                   \* index of the project the outer loop is at
    doc,                    \* the <job> elements of the current project's export
    jidx,                   \* index of the job the inner loop is at
    rundeck_job_schedules,  \* the local list being built
    returned,               \* the value _get_rundeck_job_schedules returned (0 or 1 long)
    exc,                    \* the exception that left the call, "none" if none
    resp,                   \* the last HTTP response, [status_code, text], 0 or 1 long
    api_error,              \* the (status_code, response) of a RUNDECKAPIError, 0 or 1 long
    summary,                \* the text get_schedule_summary returned, 0 or 1 long
    seen,                   \* history: every job the inner loop has been at, with its outcome
    \* ---- one run of the command line (__main__.py) --------------------------
    argv,                   \* sys.argv[1:], one element per option (with its value) or word
    opt_list,               \* the (option, value) pairs getopt returned
    args,                   \* the words getopt left over
    ARG_VALUES,             \* the module's dictionary of argument values
    oidx,                   \* index of the option the loop of process_args is at
    cpc,                    \* position of the script
    called_with,            \* the arguments RundeckCalendar was called with, 0 or 1 long
    exit_code               \* the exit status of the run, 0 or 1 long

nvars == <<cron_schedule, kwargs, made, npc>>
bvars == <<pc, project_names, pidx, doc, jidx, rundeck_job_schedules, returned, exc,
           resp, api_error, summary, seen>>
cvars == <<argv, opt_list, args, ARG_VALUES, oidx, cpc, called_with, exit_code>>
vars == <<cron_schedule, kwargs, made, npc, pc, project_names, pidx, doc, jidx,
          rundeck_job_schedules, returned, exc, resp, api_error, summary, seen,
          argv, opt_list, args, ARG_VALUES, oidx, cpc, called_with, exit_code>>

\* --------------------------------------------------------------------------
\* Bounds
\* --------------------------------------------------------------------------
\* Longest cron_schedule text enumerated for the constructor.
MaxLen == 8
\* Most jobs exported by the server over all its projects.
MaxJobs == 3
\* Most options and words on the command line.
MaxArgs == 3

\* --------------------------------------------------------------------------
\* Text
\* --------------------------------------------------------------------------
NoneVal == <<"None">>
QMark == <<"?">>
Space == " "
\* The characters of the enumerated cron_schedule texts: the separator, another
\* whitespace character, and a token character.
Alphabet == {" ", "\t", "0"}
Texts(n) == UNION {[1..k -> Alphabet] : k \in 0..n}

Fields == <<"second", "minute", "hour", "day_of_month", "month", "day_of_week", "year">>
FieldSet == {Fields[i] : i \in 1..Len(Fields)}

\* Splitting on whitespace: the maximal runs of characters that are not
\* whitespace; no token is empty.
Whitespace == {" ", "\t"}
RECURSIVE WsTokens(_)
WsTokens(s) ==
    IF s = <<>>
    THEN <<>>
    ELSE IF s[1] \in Whitespace
    THEN WsTokens(Tail(s))
    ELSE LET n == CHOOSE k \in 1..Len(s) :
                      /\ \A m \in 1..k : s[m] \notin Whitespace
                      /\ (k = Len(s) \/ s[k + 1] \in Whitespace)
         IN  <<SubSeq(s, 1, n)>> \o WsTokens(SubSeq(s, n + 1, Len(s)))

\* str.split(' '): cut at every single space; adjacent, leading and trailing
\* spaces give empty tokens, and a text without a space is one token.
RECURSIVE Split(_)
Split(s) ==
    IF \A i \in 1..Len(s) : s[i] # Space
    THEN <<s>>
    ELSE LET i == CHOOSE k \in 1..Len(s) :
                      s[k] = Space /\ \A m \in 1..(k - 1) : s[m] # Space
         IN  <<SubSeq(s, 1, i - 1)>> \o Split(SubSeq(s, i + 1, Len(s)))

\* --------------------------------------------------------------------------
\* RundeckJobSchedule.__init__
\* --------------------------------------------------------------------------
NoKwargs == [f \in FieldSet |-> NoneVal]

\* A mutant of Default: a missing keyword value is stored as None.
DefaultKeepsNone(v) == v

\* `x if x is not None else '?'`
Default(v) == IF v # NoneVal THEN v ELSE QMark

\* A mutant of TokenCountOk: only too few tokens are refused.
TokenCountAtLeast(cron_sched_split) == Len(cron_sched_split) >= 7

\* The negation of `len(cron_sched_split) != 7`.
TokenCountOk(cron_sched_split) == Len(cron_sched_split) = 7

\* A mutant of FromTokens: day_of_month and month take each other's token.
FromTokensSwapped(uuid, name, project, t) ==
    [uuid |-> uuid, name |-> name, project |-> project,
     second |-> t[1], minute |-> t[2], hour |-> t[3],
     day_of_month |-> t[5], month |-> t[4], day_of_week |-> t[6], year |-> t[7]]

\* The seven positional assignments from the split text.
FromTokens(uuid, name, project, t) ==
    [uuid |-> uuid, name |-> name, project |-> project,
     second |-> t[1], minute |-> t[2], hour |-> t[3],
     day_of_month |-> t[4], month |-> t[5], day_of_week |-> t[6], year |-> t[7]]

\* The seven assignments from the keyword arguments.
FromKwargs(uuid, name, project, kw) ==
    [uuid |-> uuid, name |-> name, project |-> project,
     second |-> Default(kw.second), minute |-> Default(kw.minute),
     hour |-> Default(kw.hour), day_of_month |-> Default(kw.day_of_month),
     month |-> Default(kw.month), day_of_week |-> Default(kw.day_of_week),
     year |-> Default(kw.year)]

\* The constructor.  With no cron_schedule every keyword value is stored, '?'
\* for a missing one; with a cron_schedule the text is split at single spaces,
\* refused unless that gives 7 tokens, and the tokens are stored in order.  The
\* outcome is the exception raised ("none" if none) and the object, if any.
RundeckJobSchedule(uuid, name, project, cron, kw) ==
    IF cron = NoneVal
    THEN [exc |-> "none", obj |-> <<FromKwargs(uuid, name, project, kw)>>]
    ELSE LET cron_sched_split == Split(cron)
         IN  IF ~TokenCountOk(cron_sched_split)
             THEN [exc |-> "Exception", obj |-> <<>>]
             ELSE [exc |-> "none",
                   obj |-> <<FromTokens(uuid, name, project, cron_sched_split)>>]

\* --------------------------------------------------------------------------
\* Calls of the constructor on enumerated arguments
\* --------------------------------------------------------------------------
\* Keyword values: missing, or one of two texts.
KwValues == {NoneVal, <<"0">>, <<"*">>}
NotCalled == [exc |-> "none", obj |-> <<>>]

\* Longer texts of 7 whitespace-separated tokens: '0 45 12 ? * 2-6 *' and the
\* same with two spaces after the first token, with a tab for the first
\* separator, with a leading space and with a trailing space.
Cron7 == <<"0", " ", "4", "5", " ", "1", "2", " ", "?", " ", "*", " ",
           "2", "-", "6", " ", "*">>
CronTwoSpaces == <<"0", " ">> \o Tail(Cron7)
CronTab == <<"0", "\t">> \o Tail(Tail(Cron7))
CronLeading == <<" ">> \o Cron7
CronTrailing == Cron7 \o <<" ">>
WhitespaceExamples == {CronTwoSpaces, CronTab, CronLeading, CronTrailing}

\* ARG_VALUES as the module creates it.
ArgDefaults ==
    [server |-> "", port |-> "", apitoken |-> "", credentials |-> "",
     logfilepath |-> "", summary |-> FALSE]

\* The command line is not run.
CliIdle ==
    /\ argv = <<>>
    /\ opt_list = <<>>
    /\ args = <<>>
    /\ ARG_VALUES = ArgDefaults
    /\ oidx = 0
    /\ cpc = "off"
    /\ called_with = <<>>
    /\ exit_code = <<>>

\* A cron_schedule of at most MaxLen characters, or one of the longer texts,
\* with no keyword arguments or with all of them, or no cron_schedule and any
\* keyword arguments.
NormInit ==
    /\ cron_schedule \in Texts(MaxLen) \cup {Cron7} \cup WhitespaceExamples \cup {NoneVal}
    /\ kwargs \in [FieldSet -> KwValues]
    /\ cron_schedule # NoneVal =>
           kwargs \in {NoKwargs, [f \in FieldSet |-> <<"0">>]}
    /\ made = NotCalled
    /\ npc = "args"

BuildIdle ==
    /\ pc = "off"
    /\ project_names = <<>>
    /\ pidx = 0
    /\ doc = <<>>
    /\ jidx = 0
    /\ rundeck_job_schedules = <<>>
    /\ returned = <<>>
    /\ exc = "none"
    /\ resp = <<>>
    /\ api_error = <<>>
    /\ summary = <<>>
    /\ seen = <<>>

\* RundeckJobSchedule('uuid', 'name', 'project', cron_schedule, **kwargs)
Construct ==
    /\ npc = "args"
    /\ made' = RundeckJobSchedule("uuid", "name", "project", cron_schedule, kwargs)
    /\ npc' = "called"
    /\ UNCHANGED <<cron_schedule, kwargs>>
    /\ UNCHANGED bvars
    /\ UNCHANGED cvars

InitNormalizer == NormInit /\ BuildIdle /\ CliIdle
NextNormalizer == Construct
SpecNormalizer == InitNormalizer /\ [][NextNormalizer]_vars

Obj == made.obj[1]
SpaceCount(s) == Cardinality({i \in 1..Len(s) : s[i] = Space})
NoSpaceIn(s) == \A i \in 1..Len(s) : s[i] # Space
JoinFields(o) ==
    o.second \o <<Space>> \o o.minute \o <<Space>> \o o.hour \o <<Space>>
      \o o.day_of_month \o <<Space>> \o o.month \o <<Space>> \o o.day_of_week
      \o <<Space>> \o o.year

\* C1: a cron_schedule of exactly 7 space-separated tokens (6 separating
\* spaces) gives an object whose second, minute, hour, day_of_month, month,
\* day_of_week and year are tokens 1 to 7 in that order, whatever the tokens
\* are: no field holds a space, and the fields joined in that order by single
\* spaces are the text.
C1_SevenTokensPositional ==
    (npc = "called" /\ cron_schedule # NoneVal /\ SpaceCount(cron_schedule) = 6) =>
        /\ made.exc = "none"
        /\ Len(made.obj) = 1
        /\ \A f \in FieldSet : NoSpaceIn(Obj[f])
        /\ JoinFields(Obj) = cron_schedule

\* A 7-token text with distinct day_of_month and month tokens, one of them
\* holding a tab and the other empty, has been given to the constructor.
C1_Witness ==
    /\ npc = "called"
    /\ cron_schedule = <<"0", " ", " ", " ", "\t", " ", " ", " ">>
    /\ made.exc = "none"
    /\ Obj.second = <<"0">>
    /\ Obj.day_of_month = <<"\t">>
    /\ Obj.month = <<>>

\* C2: a cron_schedule whose token count is not 7 (its count of separating
\* spaces is not 6) makes the constructor raise, and no object is produced.
C2_WrongCountRaises ==
    (npc = "called" /\ cron_schedule # NoneVal /\ SpaceCount(cron_schedule) # 6) =>
        /\ made.exc = "Exception"
        /\ made.obj = <<>>

\* Texts of 8 tokens, of 1 token and of 6 tokens have been refused.
C2_Witness ==
    /\ npc = "called"
    /\ cron_schedule \in {<<" ", " ", " ", " ", " ", " ", " ">>,
                          <<"0">>, <<"0", " ", "0", " ", " ", " ", " ">>}
    /\ made.exc = "Exception"
    /\ made.obj = <<>>

\* --------------------------------------------------------------------------
\* The server: projects, and the <job> elements of a project's export
\* --------------------------------------------------------------------------
\* An element is a record of its children, an absent child being no field of
\* it; id, name and scheduleEnabled are modelled by their text; a <schedule>
\* holds its attributes (attrib) and its <time>, <month>, <weekday> and <year>
\* children, each modelled by its attributes.
Has(el, key) == key \in DOMAIN el
NoAttrib == [k \in {} |-> NoneVal]

CronA == <<"0", " ", "4", "5", " ", "1", "2", " ", "?", " ", "*", " ",
           "2", "-", "6", " ", "*">>
CronShort == <<"0", " ", "4", "5", " ", "1", "2">>
T0 == <<"0">>
T45 == <<"4", "5">>
T12 == <<"1", "2">>
T15 == <<"1", "5">>
TStar == <<"*">>
T2to6 == <<"2", "-", "6">>

\* <schedule crontab='0 45 12 ? * 2-6 *'> with a <time> child beside it
JobCrontab ==
    [id |-> "id1", name |-> "test_job_1", scheduleEnabled |-> "true",
     schedule |-> [attrib |-> [crontab |-> CronA],
                   time |-> [hour |-> T15, minutes |-> T0, seconds |-> T15]]]
\* <schedule crontab='0 45 12'>, no <scheduleEnabled>
JobShortCrontab ==
    [id |-> "id2", name |-> "job_short",
     schedule |-> [attrib |-> [crontab |-> CronShort]]]
\* <scheduleEnabled>false</scheduleEnabled> with a schedule
JobDisabled ==
    [id |-> "id3", name |-> "job_off", scheduleEnabled |-> "false",
     schedule |-> [attrib |-> [crontab |-> CronA]]]
\* <scheduleEnabled>false</scheduleEnabled> without a schedule
JobDisabledNoSchedule ==
    [id |-> "id4", name |-> "test_job_2", scheduleEnabled |-> "false"]
\* <schedule><month month='*'/><time hour='12' minutes='45' seconds='0'/>
\* <weekday day='2-6'/><year year='*'/></schedule>
JobStructured ==
    [id |-> "id5", name |-> "test_job_1", scheduleEnabled |-> "true",
     schedule |-> [attrib |-> NoAttrib,
                   month |-> [month |-> TStar],
                   time |-> [hour |-> T12, minutes |-> T45, seconds |-> T0],
                   weekday |-> [day |-> T2to6],
                   year |-> [year |-> TStar]]]
\* <schedule/>
JobStructuredEmpty ==
    [id |-> "id6", name |-> "job_empty", scheduleEnabled |-> "true",
     schedule |-> [attrib |-> NoAttrib]]
\* <schedule><month month='*' day='15'/></schedule>
JobStructuredDay ==
    [id |-> "id7", name |-> "job_day",
     schedule |-> [attrib |-> NoAttrib, month |-> [month |-> TStar, day |-> T15]]]
\* no <schedule>
JobNoSchedule ==
    [id |-> "id8", name |-> "job_plain", scheduleEnabled |-> "true"]
\* a schedule with a crontab, no <id>
JobNoId ==
    [name |-> "job_noid", scheduleEnabled |-> "true",
     schedule |-> [attrib |-> [crontab |-> CronA]]]
\* a schedule with a crontab, no <name>
JobNoName ==
    [id |-> "id9", scheduleEnabled |-> "true",
     schedule |-> [attrib |-> [crontab |-> CronA]]]

Jobs == {JobCrontab, JobShortCrontab, JobDisabled, JobDisabledNoSchedule,
         JobStructured, JobStructuredEmpty, JobStructuredDay, JobNoSchedule,
         JobNoId, JobNoName}
JobLists(n) == UNION {[1..k -> Jobs] : k \in 0..n}

ProjectListings == {<<>>, <<"TestProject">>, <<"OtherProject">>,
                    <<"TestProject", "OtherProject">>,
                    <<"OtherProject", "TestProject">>}
\* The statuses the server answers with, and the texts of its error answers.
\* An answer with status 200 or 204 is taken to carry a well-formed document.
StatusCodes == {200, 204, 404, 500}
ErrorTexts == {"", "Unauthorized"}
StatusOk(status_code) == status_code \in {204, 200}
\* resp.text: the document of an answer with status 200 or 204 is held apart
\* (the listing, the jobs), its text stands here as "xml".
Response(status_code, text) ==
    [status_code |-> status_code,
     text |-> IF StatusOk(status_code) THEN "xml" ELSE text]

\* A mutant of ApiFails: only the server errors (5xx) are failures.
ApiFailsOnServerErrorOnly(status_code) == status_code >= 500

\* `resp.status_code not in (204, 200)`
ApiFails(status_code) == ~StatusOk(status_code)

\* RUNDECKAPIError(status_code=resp.status_code, response=resp.text)
RUNDECKAPIError(status_code, response) ==
    [status_code |-> status_code, response |-> response]

\* --------------------------------------------------------------------------
\* RundeckCalendar._get_rundeck_job_schedules: one job of the inner loop
\* --------------------------------------------------------------------------
Continue == [kind |-> "continue", exc |-> "none", rec |-> <<>>]
NoSchedule == [kind |-> "no_schedule", exc |-> "none", rec |-> <<>>]
Raise(e) == [kind |-> "raise", exc |-> e, rec |-> <<>>]
AppendRec(r) == [kind |-> "append", exc |-> "none", rec |-> <<r>>]

\* `job.find('scheduleEnabled') is not None` and its text is 'false'
ScheduleDisabled(job) == Has(job, "scheduleEnabled") /\ job.scheduleEnabled = "false"

\* A mutant of NewRecord: a missing id or name is stored as None.
NewRecordNoneIdentity(job, project_name) ==
    AppendRec(RundeckJobSchedule(IF Has(job, "id") THEN job.id ELSE "None",
                                 IF Has(job, "name") THEN job.name ELSE "None",
                                 project_name, NoneVal, NoKwargs).obj[1])

\* RundeckJobSchedule(job.find('id').text, job.find('name').text, project_name):
\* .text of a missing element is an AttributeError; with no cron_schedule and
\* no keyword argument the constructor cannot raise.
NewRecord(job, project_name) ==
    IF ~Has(job, "id") \/ ~Has(job, "name")
    THEN Raise("AttributeError")
    ELSE AppendRec(RundeckJobSchedule(job.id, job.name, project_name,
                                     NoneVal, NoKwargs).obj[1])

\* The branch taken when sched.attrib['crontab'] is not None: a record built
\* with no cron_schedule, then the text stored in its cron_schedule attribute.
CrontabBranch(job, sched, project_name) ==
    LET new == NewRecord(job, project_name)
    IN  IF new.kind = "raise"
        THEN new
        ELSE AppendRec(new.rec[1] @@ [cron_schedule |-> sched.attrib.crontab])

\* One `try: record.field = sched.find(tag).attrib[key]` with its
\* `except (AttributeError, KeyError): pass`.
TryAssign(r, field, sched, tag, key) ==
    IF Has(sched, tag) /\ Has(sched[tag], key)
    THEN [r EXCEPT ![field] = sched[tag][key]]
    ELSE r

\* The else branch: the structured values, one guarded assignment each, and
\* last the month element's day attribute, read outside any try.
StructuredBranch(job, sched, project_name) ==
    LET new == NewRecord(job, project_name)
    IN  IF new.kind = "raise"
        THEN new
        ELSE LET r1 == TryAssign(new.rec[1], "second", sched, "time", "seconds")
                 r2 == TryAssign(r1, "minute", sched, "time", "minutes")
                 r3 == TryAssign(r2, "hour", sched, "time", "hour")
                 r4 == [r3 EXCEPT !.day_of_month = QMark]
                 r5 == TryAssign(r4, "month", sched, "month", "month")
                 r6 == TryAssign(r5, "day_of_week", sched, "weekday", "day")
                 r7 == TryAssign(r6, "year", sched, "year", "year")
             IN  IF ~Has(sched, "month")
                 THEN Raise("AttributeError")
                 ELSE IF ~Has(sched.month, "day")
                 THEN Raise("KeyError")
                 ELSE IF sched.month.day # NoneVal
                 THEN AppendRec([r7 EXCEPT !.day_of_month = sched.month.day])
                 ELSE AppendRec(r7)

\* The body of `for job in doc.findall('job')` for one job: what it does to the
\* list (nothing, or one record appended) or the exception it raises.
\* sched.attrib['crontab'] is a KeyError when the attribute is missing.
JobOutcome(job, project_name) ==
    IF ScheduleDisabled(job)
    THEN Continue
    ELSE IF ~Has(job, "schedule")
    THEN NoSchedule
    ELSE LET sched == job.schedule
         IN  IF ~Has(sched.attrib, "crontab")
             THEN Raise("KeyError")
             ELSE IF sched.attrib.crontab # NoneVal
             THEN CrontabBranch(job, sched, project_name)
             ELSE StructuredBranch(job, sched, project_name)

\* A mutant of Propagates: an exception of the loop body is swallowed and the
\* loop goes on with the next job.
PropagatesNever(out) == FALSE

\* The loop body stands in no try block: what it raises leaves the method.
Propagates(out) == out.kind = "raise"

\* --------------------------------------------------------------------------
\* RundeckCalendar: _get_project_names, then _get_rundeck_job_schedules
\* --------------------------------------------------------------------------
\* The constructor calls _get_project_names and then _get_rundeck_jobs
\* (ConstructorGetJobs).  _get_rundeck_job_schedules is followed as a call made
\* on an object whose project_names is set, as test_constructor makes it.
NormIdle ==
    /\ cron_schedule = NoneVal
    /\ kwargs = NoKwargs
    /\ made = NotCalled
    /\ npc = "off"

BuildInit ==
    /\ pc = "new"
    /\ project_names = <<>>
    /\ pidx = 0
    /\ doc = <<>>
    /\ jidx = 0
    /\ rundeck_job_schedules = <<>>
    /\ returned = <<>>
    /\ exc = "none"
    /\ resp = <<>>
    /\ api_error = <<>>
    /\ summary = <<>>
    /\ seen = <<>>

Init == NormIdle /\ BuildInit /\ CliIdle

\* self.project_names = self._get_project_names(): the server answers with a
\* status and a listing.
GetProjectNames ==
    /\ pc = "new"
    /\ \E status_code \in StatusCodes, names \in ProjectListings, text \in ErrorTexts :
          /\ resp' = <<Response(status_code, text)>>
          /\ IF ApiFails(status_code)
             THEN /\ pc' = "raised"
                  /\ exc' = "RUNDECKAPIError"
                  /\ api_error' = <<RUNDECKAPIError(status_code, text)>>
                  /\ UNCHANGED project_names
             ELSE /\ pc' = "listed"
                  /\ project_names' = names
                  /\ UNCHANGED <<exc, api_error>>
    /\ UNCHANGED <<pidx, doc, jidx, rundeck_job_schedules, returned, summary, seen>>
    /\ UNCHANGED nvars
    /\ UNCHANGED cvars

\* _get_rundeck_job_schedules is entered: the empty list, the first project.
StartBuild ==
    /\ pc = "listed"
    /\ rundeck_job_schedules' = <<>>
    /\ pidx' = 1
    /\ pc' = "projects"
    /\ UNCHANGED <<project_names, doc, jidx, returned, exc, resp, api_error, summary, seen>>
    /\ UNCHANGED nvars
    /\ UNCHANGED cvars

\* The export of project pidx is requested: a status other than 200 or 204
\* raises RUNDECKAPIError, otherwise the inner loop starts on the jobs.
FetchProject ==
    /\ pc = "projects"
    /\ pidx <= Len(project_names)
    /\ \E status_code \in StatusCodes, jobs \in JobLists(MaxJobs - Len(seen)),
          text \in ErrorTexts :
          /\ resp' = <<Response(status_code, text)>>
          /\ IF ApiFails(status_code)
             THEN /\ pc' = "raised"
                  /\ exc' = "RUNDECKAPIError"
                  /\ api_error' = <<RUNDECKAPIError(status_code, text)>>
                  /\ UNCHANGED <<doc, jidx>>
             ELSE /\ pc' = "jobs"
                  /\ doc' = jobs
                  /\ jidx' = 1
                  /\ UNCHANGED <<exc, api_error>>
    /\ UNCHANGED <<project_names, pidx, rundeck_job_schedules, returned, summary, seen>>
    /\ UNCHANGED nvars
    /\ UNCHANGED cvars

\* One pass of the inner loop, on job jidx of the current project.
ProcessJob ==
    /\ pc = "jobs"
    /\ jidx <= Len(doc)
    /\ LET out == JobOutcome(doc[jidx], project_names[pidx])
       IN  /\ seen' = Append(seen, [project |-> project_names[pidx],
                                    job |-> doc[jidx], kind |-> out.kind,
                                    exc |-> out.exc, rec |-> out.rec])
           /\ IF Propagates(out)
              THEN /\ pc' = "raised"
                   /\ exc' = out.exc
                   /\ UNCHANGED <<jidx, rundeck_job_schedules>>
              ELSE /\ jidx' = jidx + 1
                   /\ rundeck_job_schedules' =
                          IF out.kind = "append"
                          THEN Append(rundeck_job_schedules, out.rec[1])
                          ELSE rundeck_job_schedules
                   /\ UNCHANGED <<pc, exc>>
    /\ UNCHANGED <<project_names, pidx, doc, returned, resp, api_error, summary>>
    /\ UNCHANGED nvars
    /\ UNCHANGED cvars

\* The inner loop is over: the outer loop takes the next project.
NextProject ==
    /\ pc = "jobs"
    /\ jidx > Len(doc)
    /\ pidx' = pidx + 1
    /\ pc' = "projects"
    /\ UNCHANGED <<project_names, doc, jidx, rundeck_job_schedules, returned, exc,
                   resp, api_error, summary, seen>>
    /\ UNCHANGED nvars
    /\ UNCHANGED cvars

\* The outer loop is over: return rundeck_job_schedules.
Return ==
    /\ pc = "projects"
    /\ pidx > Len(project_names)
    /\ returned' = <<rundeck_job_schedules>>
    /\ pc' = "returned"
    /\ UNCHANGED <<project_names, pidx, doc, jidx, rundeck_job_schedules, exc,
                   resp, api_error, summary, seen>>
    /\ UNCHANGED nvars
    /\ UNCHANGED cvars

\* The names the class body of RundeckCalendar binds to functions.
Methods == {"__init__", "_get_project_names", "_get_rundeck_job_schedules"}

\* self.<method>(): the lookup of a name the class does not define raises
\* AttributeError before anything is called.
Call(method) == IF method \in Methods THEN "none" ELSE "AttributeError"

\* The constructor's last statement, self.rundeck_jobs = self._get_rundeck_jobs().
ConstructorGetJobs ==
    /\ pc = "listed"
    /\ exc' = Call("_get_rundeck_jobs")
    /\ pc' = IF Call("_get_rundeck_jobs") = "none" THEN "constructed" ELSE "ctor_raised"
    /\ UNCHANGED <<project_names, pidx, doc, jidx, rundeck_job_schedules, returned,
                   resp, api_error, summary, seen>>
    /\ UNCHANGED nvars
    /\ UNCHANGED cvars

\* rund_cal.get_schedule_summary(), asked of an object whose list was built.
GetScheduleSummary ==
    /\ pc = "returned"
    /\ exc' = Call("get_schedule_summary")
    /\ pc' = IF Call("get_schedule_summary") = "none"
             THEN "summary_returned" ELSE "summary_raised"
    /\ UNCHANGED <<project_names, pidx, doc, jidx, rundeck_job_schedules, returned,
                   resp, api_error, summary, seen>>
    /\ UNCHANGED nvars
    /\ UNCHANGED cvars

Next ==
    \/ GetProjectNames
    \/ ConstructorGetJobs
    \/ GetScheduleSummary
    \/ StartBuild
    \/ FetchProject
    \/ ProcessJob
    \/ NextProject
    \/ Return

Spec == Init /\ [][Next]_vars

\* --------------------------------------------------------------------------
\* Properties of the catalog build
\* --------------------------------------------------------------------------
Entries == {seen[k] : k \in 1..Len(seen)}
HasSchedule(job) == Has(job, "schedule")
HasCrontab(job) == HasSchedule(job) /\ Has(job.schedule.attrib, "crontab")
Structured(job) == HasSchedule(job) /\ ~Has(job.schedule.attrib, "crontab")
\* The value of attribute key of child tag of the schedule, NoneVal if missing.
Value(sched, tag, key) ==
    IF Has(sched, tag) /\ Has(sched[tag], key) THEN sched[tag][key] ELSE NoneVal
AllQMark(r) == \A f \in FieldSet : r[f] = QMark

\* C3: for every job whose schedule carries a crontab attribute of exactly 7
\* space-separated tokens, the record appended for it has its seven recurrence
\* fields equal to those tokens in order.
C3_CrontabRecordHoldsTokens ==
    \A e \in Entries :
        (e.kind = "append" /\ HasCrontab(e.job)
            /\ SpaceCount(e.job.schedule.attrib.crontab) = 6) =>
            JoinFields(e.rec[1]) = e.job.schedule.attrib.crontab

\* C4: for every job with a structured schedule (no crontab attribute) that is
\* not disabled, a record is appended in which each structured value that is
\* present sits in its field: seconds, minutes, hour, month, weekday day, year.
C4_StructuredValuesAssigned ==
    \A e \in Entries :
        (Structured(e.job) /\ ~ScheduleDisabled(e.job)) =>
            /\ e.kind = "append"
            /\ LET sched == e.job.schedule
                   r == e.rec[1]
                   Set(field, tag, key) ==
                       Value(sched, tag, key) # NoneVal =>
                           r[field] = Value(sched, tag, key)
               IN  /\ Set("second", "time", "seconds")
                   /\ Set("minute", "time", "minutes")
                   /\ Set("hour", "time", "hour")
                   /\ Set("month", "month", "month")
                   /\ Set("day_of_week", "weekday", "day")
                   /\ Set("year", "year", "year")

\* C5: a structured schedule with none of the optional values (no time, month,
\* weekday or year child, no crontab) is normalized without error, and every
\* one of the seven fields of its record is '?'.
C5_EmptyStructuredAllQMark ==
    \A e \in Entries :
        (~ScheduleDisabled(e.job) /\ HasSchedule(e.job)
            /\ DOMAIN e.job.schedule = {"attrib"}
            /\ DOMAIN e.job.schedule.attrib = {}) =>
            /\ e.exc = "none"
            /\ e.kind = "append"
            /\ AllQMark(e.rec[1])

\* C6: for every structured schedule, day_of_month of the record is the month
\* element's day attribute when that is present and '?' when it is absent (the
\* month element too), and absence causes no error.
C6_DayOfMonthFromMonthDay ==
    \A e \in Entries :
        (Structured(e.job) /\ ~ScheduleDisabled(e.job)) =>
            /\ e.exc = "none"
            /\ Len(e.rec) = 1
            /\ e.rec[1].day_of_month =
                   Default(Value(e.job.schedule, "month", "day"))

Populated(r) == \A f \in FieldSet : r[f] # NoneVal

\* C7: in every state of a build, every record of the list being built, of the
\* returned list and of the history has all seven recurrence fields set to a
\* value that is not None.
C7_EveryFieldPopulated ==
    /\ \A i \in 1..Len(rundeck_job_schedules) : Populated(rundeck_job_schedules[i])
    /\ \A c \in 1..Len(returned) :
           \A i \in 1..Len(returned[c]) : Populated(returned[c][i])
    /\ \A e \in Entries : \A i \in 1..Len(e.rec) : Populated(e.rec[i])

\* A list of two records, the first from a crontab-form job, has been returned.
C7_Witness ==
    /\ pc = "returned"
    /\ Len(returned[1]) = 2
    /\ seen[1].job = JobCrontab
    /\ returned[1][1].uuid = "id1"
    /\ returned[1][1].second = QMark

\* The jobs of the history that are not disabled and carry a schedule.
Scheduled == {k \in 1..Len(seen) :
                  ~ScheduleDisabled(seen[k].job) /\ HasSchedule(seen[k].job)}

\* C8: a job whose scheduleEnabled is 'false' contributes no record and no
\* error, with a schedule or without; a job that is not disabled and carries a
\* schedule contributes exactly one record; a job without schedule none; so the
\* returned list has one record per scheduled job.
C8_OneRecordPerScheduledJob ==
    /\ \A e \in Entries :
           /\ ScheduleDisabled(e.job) => (e.rec = <<>> /\ e.exc = "none")
           /\ (~ScheduleDisabled(e.job) /\ HasSchedule(e.job)) => Len(e.rec) = 1
           /\ ~HasSchedule(e.job) => e.rec = <<>>
    /\ Len(rundeck_job_schedules) = Cardinality(Scheduled)

\* C9: a schedule with a crontab attribute gives a record holding that crontab
\* text; a schedule without one falls back to the structured values, and the
\* job still gives one record and no error.
C9_CrontabElseStructured ==
    \A e \in Entries :
        (~ScheduleDisabled(e.job) /\ HasSchedule(e.job)
            /\ Has(e.job, "id") /\ Has(e.job, "name")) =>
            IF Has(e.job.schedule.attrib, "crontab")
            THEN /\ e.kind = "append"
                 /\ e.rec[1].cron_schedule = e.job.schedule.attrib.crontab
            ELSE /\ e.kind = "append"
                 /\ e.exc = "none"

\* C10, as claimed: a failure while one job's record is built does not abort
\* the build; the loop goes on and the call does not raise.
C10_FailureIsolated ==
    \A e \in Entries : e.kind = "raise" => (pc # "raised" /\ exc = "none")

\* C10, amended: an exception raised while one job's record is built (KeyError
\* for a schedule without crontab attribute, AttributeError for a missing id or
\* name) leaves _get_rundeck_job_schedules: that job is the last one looked at,
\* the call raises that exception and returns no list.  A crontab that does not
\* split into 7 tokens raises nothing in the build: its job gets a record.
C10_FailureAbortsBuild ==
    /\ \A k \in 1..Len(seen) :
           seen[k].kind = "raise" =>
               /\ k = Len(seen)
               /\ pc = "raised"
               /\ exc = seen[k].exc
               /\ returned = <<>>
    /\ \A e \in Entries :
           (~ScheduleDisabled(e.job) /\ HasCrontab(e.job)
               /\ Has(e.job, "id") /\ Has(e.job, "name")
               /\ SpaceCount(e.job.schedule.attrib.crontab) # 6) =>
               e.kind = "append"

\* A record was appended for a first job, a crontab of 3 tokens got a record,
\* and then a structured job raised: the build stopped with nothing returned.
C10_Witness ==
    /\ Len(seen) = 3
    /\ seen[1].kind = "append"
    /\ seen[2].job = JobShortCrontab
    /\ seen[2].kind = "append"
    /\ seen[3].kind = "raise"
    /\ seen[3].exc = "KeyError"
    /\ pc = "raised"
    /\ Len(rundeck_job_schedules) = 2
    /\ returned = <<>>

\* C11: when the project listing or a project's job export is answered with a
\* status other than 200 or 204, the call raises RUNDECKAPIError carrying that
\* status and the response text, and no list is returned: the records built
\* for earlier projects are not delivered.
C11_ApiErrorAbortsBuild ==
    (resp # <<>> /\ resp[1].status_code \notin {200, 204}) =>
        /\ pc = "raised"
        /\ exc = "RUNDECKAPIError"
        /\ api_error = <<[status_code |-> resp[1].status_code,
                          response |-> resp[1].text]>>
        /\ returned = <<>>

\* The export of the second project was answered 404 after a record had been
\* built for the first project.
C11_Witness ==
    /\ pidx = 2
    /\ Len(rundeck_job_schedules) >= 1
    /\ resp # <<>>
    /\ resp[1].status_code = 404
    /\ resp[1].text = "Unauthorized"
    /\ pc = "raised"
    /\ returned = <<>>

\* The report of a list of records: the header line, then one line per record
\* in the order of the list, each line given by its columns.
Header == <<"project:job:", "second", "minute", "hour", "day_of_month", "month",
            "day_of_week", "year">>
Line(r) == <<r.project, r.name, r.second, r.minute, r.hour, r.day_of_month,
             r.month, r.day_of_week, r.year>>
Render(list) == <<Header>> \o [i \in 1..Len(list) |-> Line(list[i])]

\* C12: get_schedule_summary returns the header line followed by one line per
\* record of the catalog, in catalog order, nothing reordered, left out or
\* merged.
C12_SummaryIsHeaderAndLines ==
    pc \in {"summary_returned", "summary_raised"} =>
        /\ exc = "none"
        /\ summary = <<Render(returned[1])>>

\* C13: RundeckCalendar(host, port, api_token, ssl_enabled) against a server
\* that answers the project listing completes without error.
C13_ConstructorCompletes ==
    (pc \in {"constructed", "ctor_raised"}
        /\ resp # <<>> /\ resp[1].status_code \in {200, 204}) =>
        /\ pc = "constructed"
        /\ exc = "none"

NoIdentity(job) == ~Has(job, "id") \/ ~Has(job, "name")

\* C14, as claimed: a job without id or name element gets no record, and its
\* failure does not abort the processing of the other jobs.
C14_MissingIdentityIsolated ==
    \A e \in Entries :
        (NoIdentity(e.job) /\ e.kind = "raise") =>
            (e.rec = <<>> /\ pc # "raised")

\* C14, amended: a job without id or name element whose schedule is read (the
\* job is not disabled and its schedule has a crontab attribute) gets no
\* record and raises AttributeError, which leaves _get_rundeck_job_schedules:
\* it is the last job looked at and no list is returned.  Such a job that is
\* disabled or has no schedule raises nothing.
C14_MissingIdentityAbortsBuild ==
    \A k \in 1..Len(seen) :
        NoIdentity(seen[k].job) =>
            IF ~ScheduleDisabled(seen[k].job) /\ HasCrontab(seen[k].job)
            THEN /\ seen[k].kind = "raise"
                 /\ seen[k].exc = "AttributeError"
                 /\ seen[k].rec = <<>>
                 /\ k = Len(seen)
                 /\ pc = "raised"
                 /\ exc = "AttributeError"
                 /\ returned = <<>>
            ELSE seen[k].rec = <<>>

\* A record was built for a first job, then a job without <name> raised and
\* the build stopped with nothing returned.
C14_Witness ==
    /\ Len(seen) = 2
    /\ seen[1].kind = "append"
    /\ seen[2].job = JobNoName
    /\ seen[2].exc = "AttributeError"
    /\ pc = "raised"
    /\ Len(rundeck_job_schedules) = 1
    /\ returned = <<>>

\* C18, as claimed: the text is split on whitespace, so a text of 7 tokens
\* separated by runs of whitespace is accepted, and its fields are those 7
\* tokens, none of them empty.
C18_SplitOnWhitespace ==
    (npc = "called" /\ cron_schedule # NoneVal /\ Len(WsTokens(cron_schedule)) = 7) =>
        /\ made.exc = "none"
        /\ Len(made.obj) = 1
        /\ <<Obj.second, Obj.minute, Obj.hour, Obj.day_of_month, Obj.month,
             Obj.day_of_week, Obj.year>> = WsTokens(cron_schedule)

\* --------------------------------------------------------------------------
\* The command line: process_args and the script body of __main__.py
\* --------------------------------------------------------------------------

\* The options getopt accepts: the short options of 'hs:p:a:c:SL:' and the long
\* options named by the keys of ARG_VALUES.  There is no long option 'help'.
ShortOptions == {"-h", "-s", "-p", "-a", "-c", "-S", "-L"}
LongOptions ==
    {"--server", "--port", "--apitoken", "--credentials", "--logfilepath", "--summary"}

\* The file system the script looks at: the directories that exist, the
\* directory part of each path (os.path.split), and the apitoken of each
\* credentials file that has one.
Directories == {"/etc/rd", "/var/log"}
DirName(path) ==
    CASE path = "/etc/rd/creds.ini" -> "/etc/rd"
      [] path = "/etc/rd/empty.ini" -> "/etc/rd"
      [] path = "/etc/rd/missing.ini" -> "/etc/rd"
      [] path = "/var/log/rd.log" -> "/var/log"
      [] OTHER -> ""
IsDir(head) == head \in Directories
CredentialsFiles == {"/etc/rd/creds.ini", "/etc/rd/empty.ini"}
ApiTokenIn(path) == IF path = "/etc/rd/creds.ini" THEN "tok" ELSE ""

\* What a command line is made of: an option with its value, or a word that is
\* no option (opt = "").
Option(o, v) == [opt |-> o, val |-> v]
Items ==
    { Option("-h", ""), Option("--help", ""), Option("-x", ""),
      Option("-s", "rundeck"), Option("-p", "4440"),
      Option("-a", "tok"), Option("--apitoken", ""),
      Option("-c", "/etc/rd/creds.ini"), Option("--credentials", "/etc/rd/empty.ini"),
      Option("-c", "/etc/rd/missing.ini"), Option("-c", "creds.ini"),
      Option("-S", ""), Option("-L", "/var/log/rd.log"), Option("-L", "rd.log"),
      Option("", "stray") }
CommandLines == UNION { [1..n -> Items] : n \in 0..MaxArgs }

\* The script is started with some command line; process_args has not run.
CliInit ==
    /\ argv \in CommandLines
    /\ opt_list = <<>>
    /\ args = <<>>
    /\ ARG_VALUES = ArgDefaults
    /\ oidx = 0
    /\ cpc = "start"
    /\ called_with = <<>>
    /\ exit_code = <<>>

InitCli == NormIdle /\ BuildIdle /\ CliInit

\* sys.exit(code), or an exception nothing catches (status 1).
Exit(code) ==
    /\ cpc' = "exited"
    /\ exit_code' = <<code>>

\* getopt.getopt: options are read up to the first word that is no option, the
\* rest is left over; an option it does not know raises GetoptError.
FirstWord(line) ==
    IF \E i \in 1..Len(line) : line[i].opt = ""
    THEN CHOOSE i \in 1..Len(line) :
             /\ line[i].opt = ""
             /\ \A k \in 1..(i - 1) : line[k].opt # ""
    ELSE Len(line) + 1

GetoptError(line) ==
    \E i \in 1..(FirstWord(line) - 1) : line[i].opt \notin ShortOptions \cup LongOptions

Getopt ==
    /\ cpc = "start"
    /\ IF GetoptError(argv)
       THEN /\ Exit(2)
            /\ UNCHANGED <<opt_list, args, oidx>>
       ELSE /\ opt_list' = SubSeq(argv, 1, FirstWord(argv) - 1)
            /\ args' = SubSeq(argv, FirstWord(argv), Len(argv))
            /\ oidx' = 1
            /\ cpc' = "loop"
            /\ UNCHANGED exit_code
    /\ UNCHANGED <<argv, ARG_VALUES, called_with>>
    /\ UNCHANGED nvars
    /\ UNCHANGED bvars

\* The first test of the loop body: the option is -h, or words are left over.
HelpWanted(opt, left) == opt.opt \in {"-h", "--help"} \/ Len(left) > 0

\* The test -a and -c make for the other option having been given.
TokenConflict(values) == values.apitoken # ""

\* One pass of the loop body for the option opt: the exit status if the pass
\* ends the run (0 or 1 long) and the dictionary after it.
Stored(values) == [status |-> <<>>, values |-> values]
Ended(code, values) == [status |-> <<code>>, values |-> values]

ProcessOpt(opt, left, values) ==
    IF HelpWanted(opt, left)
    THEN Ended(0, values)
    ELSE IF opt.opt \in {"-s", "--server"}
    THEN Stored([values EXCEPT !.server = opt.val])
    ELSE IF opt.opt \in {"-p", "--port"}
    THEN Stored([values EXCEPT !.port = opt.val])
    ELSE IF opt.opt \in {"-a", "--apitoken"}
    THEN IF TokenConflict(values)
         THEN Ended(1, values)
         ELSE Stored([values EXCEPT !.apitoken = opt.val])
    ELSE IF opt.opt \in {"-c", "--credentials"}
    THEN IF TokenConflict(values)
         THEN Ended(1, values)
         ELSE IF ~IsDir(DirName(opt.val))
         THEN Ended(1, values)
         ELSE IF opt.val \notin CredentialsFiles
         THEN Ended(1, [values EXCEPT !.credentials = opt.val])
         ELSE Stored([values EXCEPT !.credentials = opt.val,
                                    !.apitoken = ApiTokenIn(opt.val)])
    ELSE IF opt.opt \in {"-S", "--summary"}
    THEN Stored([values EXCEPT !.summary = TRUE])
    ELSE IF opt.opt \in {"-L", "--logfilepath"}
    THEN IF ~IsDir(DirName(opt.val))
         THEN Ended(1, values)
         ELSE Stored([values EXCEPT !.logfilepath = opt.val])
    ELSE Stored(values)

ProcessOption ==
    /\ cpc = "loop"
    /\ oidx <= Len(opt_list)
    /\ LET r == ProcessOpt(opt_list[oidx], args, ARG_VALUES)
       IN  /\ ARG_VALUES' = r.values
           /\ IF r.status # <<>>
              THEN /\ Exit(r.status[1])
                   /\ UNCHANGED oidx
              ELSE /\ oidx' = oidx + 1
                   /\ UNCHANGED <<cpc, exit_code>>
    /\ UNCHANGED <<argv, opt_list, args, called_with>>
    /\ UNCHANGED nvars
    /\ UNCHANGED bvars

\* The test after the loop: server, port and apitoken all have a value.
RequiredGiven(values) ==
    values.server # "" /\ values.port # "" /\ values.apitoken # ""

RequiredArguments ==
    /\ cpc = "loop"
    /\ oidx > Len(opt_list)
    /\ IF RequiredGiven(ARG_VALUES)
       THEN /\ cpc' = "parsed"
            /\ UNCHANGED exit_code
       ELSE Exit(1)
    /\ UNCHANGED <<argv, opt_list, args, ARG_VALUES, oidx, called_with>>
    /\ UNCHANGED nvars
    /\ UNCHANGED bvars

\* What RundeckCalendar(server, port, api_token) ends with: the listing of the
\* projects raises (no connection, or a status other than 200), or the call
\* of _get_rundeck_jobs is made.
Construction == {"ConnectionError", "RUNDECKAPIError", Call("_get_rundeck_jobs")}

\* The script body after process_args: the catalog is built, the summary is
\* logged if asked for, and the script exits with 0.  An exception that
\* leaves the constructor or the summary ends the run with status 1.
Main ==
    /\ cpc = "parsed"
    /\ called_with' =
           <<[server |-> ARG_VALUES.server, port |-> ARG_VALUES.port,
              api_token |-> ARG_VALUES.apitoken]>>
    /\ \E e \in Construction :
           IF e # "none"
           THEN Exit(1)
           ELSE IF ARG_VALUES.summary /\ Call("get_schedule_summary") # "none"
           THEN Exit(1)
           ELSE Exit(0)
    /\ UNCHANGED <<argv, opt_list, args, ARG_VALUES, oidx>>
    /\ UNCHANGED nvars
    /\ UNCHANGED bvars

NextCli ==
    \/ Getopt
    \/ ProcessOption
    \/ RequiredArguments
    \/ Main

SpecCli == InitCli /\ [][NextCli]_vars

\* --------------------------------------------------------------------------
\* Claims about the command line
\* --------------------------------------------------------------------------

\* What the command line says, whatever the script does with it.
Gives(line, names) == \E i \in 1..Len(line) : line[i].opt \in names /\ line[i].val # ""
AsksHelp(line) == \E i \in 1..Len(line) : line[i].opt \in {"-h", "--help"}
UnknownOption(line) ==
    \E i \in 1..Len(line) : line[i].opt \notin ShortOptions \cup LongOptions \cup {""}
MissingServer(line) == ~Gives(line, {"-s", "--server"})
MissingPort(line) == ~Gives(line, {"-p", "--port"})
MissingToken(line) ==
    ~Gives(line, {"-a", "--apitoken"}) /\ ~Gives(line, {"-c", "--credentials"})
ValidationFailure(line) ==
    UnknownOption(line) \/ MissingServer(line) \/ MissingPort(line) \/ MissingToken(line)

\* C16, as claimed: a run whose command line fails validation (an unknown
\* option, no server, no port, or neither token nor credentials) and does not
\* ask for help exits with a non-zero code; a run exits with 0 only when it
\* asked for help or built the catalog; process_args returns only with
\* server, port and apitoken non-empty, and RundeckCalendar is called only then.
C16_ExitCodes ==
    /\ (cpc = "exited" /\ ValidationFailure(argv) /\ ~AsksHelp(argv)) =>
           exit_code # <<0>>
    /\ exit_code = <<0>> => (AsksHelp(argv) \/ called_with # <<>>)
    /\ cpc = "parsed" => RequiredGiven(ARG_VALUES)
    /\ called_with # <<>> =>
           /\ called_with[1].server # ""
           /\ called_with[1].port # ""
           /\ called_with[1].api_token # ""

\* The options read by the loop hold both a token option and a credentials
\* option; BothBy is the place of the second of them.
TokenAt(i) == opt_list[i].opt \in {"-a", "--apitoken"}
CredentialsAt(i) == opt_list[i].opt \in {"-c", "--credentials"}
BothGiven ==
    /\ \E i \in 1..Len(opt_list) : TokenAt(i)
    /\ \E i \in 1..Len(opt_list) : CredentialsAt(i)
BothBy ==
    CHOOSE k \in 1..Len(opt_list) :
        /\ \E i \in 1..k : TokenAt(i)
        /\ \E i \in 1..k : CredentialsAt(i)
        /\ ~(/\ \E i \in 1..(k - 1) : TokenAt(i)
             /\ \E i \in 1..(k - 1) : CredentialsAt(i))

\* C17, as claimed: when the options hold both a token option and a
\* credentials option (and none asks for help, and no word is left over), the
\* loop never gets past the second of them: the run ends there or earlier
\* with status 1, the second one's token is not stored, and process_args does
\* not return.
C17_TokenAndCredentialsExclusive ==
    (BothGiven /\ args = <<>> /\ ~AsksHelp(opt_list)) =>
        /\ cpc # "parsed"
        /\ cpc = "loop" => oidx <= BothBy
        /\ cpc = "exited" => exit_code = <<1>>

====
